---------------------------- MODULE Spec2Model ----------------------------
(***************************************************************************)
(* A model of api/gemini.js: the serverless relay `handler(req, res)`.     *)
(*                                                                         *)
(* One invocation of the async handler is followed from the call to its   *)
(* completion.  The handler suspends at three awaits (fetch, text(),      *)
(* json()); every action below is the code that runs between two awaits.  *)
(*                                                                         *)
(* JavaScript values are tagged records:                                   *)
(*   [t |-> "undefined"], [t |-> "null"], [t |-> "str", v |-> s],          *)
(*   [t |-> "bool", b |-> B],                                              *)
(*   [t |-> "obj", f |-> function from keys], [t |-> "arr", e |-> seq].    *)
(***************************************************************************)
EXTENDS Integers, Sequences, FiniteSets, TLC

VARIABLES
    pc,              \* where the invocation stands
    env,             \* process.env.GEMINI_API_KEY
    req,             \* the inbound request [method, body]
    payload,         \* the local `payload` once built
    fetchCalls,      \* the calls made to fetch, in order
    googleResponse,  \* the local `googleResponse` once fetch resolved
    sent,            \* the responses emitted through res.status(..).json(..)
    console,         \* what console.error was given
    error,           \* the `error` the catch block was entered with, if it was
    unhandled        \* the error the handler's promise rejected with, if any

vars == <<pc, env, req, payload, fetchCalls, googleResponse, sent, console, error, unhandled>>

---------------------------------------------------------------------------
(* JavaScript values *)

Undefined == [t |-> "undefined"]
Null == [t |-> "null"]
Str(s) == [t |-> "str", v |-> s]
Bool(b) == [t |-> "bool", b |-> b]
Obj(f) == [t |-> "obj", f |-> f]
Arr(e) == [t |-> "arr", e |-> e]

EmptyObj == Obj([k \in {} |-> Undefined])

\* An object with the keys of `keys` whose value in `slots` is not the
\* marker "absent": how the inputs below are enumerated.
Absent == [t |-> "absent"]

ObjOf(slots) == Obj([k \in {j \in DOMAIN slots : slots[j] # Absent} |-> slots[k]])

\* ToBoolean: what `if (x)`, `!x` and `a && b` test.
Truthy(x) ==
    CASE x.t = "undefined" -> FALSE
      [] x.t = "null" -> FALSE
      [] x.t = "str" -> x.v # ""
      [] x.t = "bool" -> x.b
      [] OTHER -> TRUE

IsNullish(x) == x.t \in {"undefined", "null"}

\* o.k for an o that is neither null nor undefined.
Get(o, k) == IF o.t = "obj" /\ k \in DOMAIN o.f THEN o.f[k] ELSE Undefined

\* o?.k
OptGet(o, k) == IF IsNullish(o) THEN Undefined ELSE Get(o, k)

\* o?.[0]
OptFirst(o) ==
    IF IsNullish(o) THEN Undefined
    ELSE IF o.t = "arr" /\ Len(o.e) >= 1 THEN o.e[1]
    ELSE Undefined

\* `${x}` for the values the handler interpolates.
TemplateString(x) ==
    CASE x.t = "str" -> x.v
      [] x.t = "undefined" -> "undefined"
      [] x.t = "null" -> "null"
      [] x.t = "bool" -> (IF x.b THEN "true" ELSE "false")
      [] OTHER -> "[object Object]"

---------------------------------------------------------------------------
(* JSON.stringify, for the values that reach it.  Members are written in   *)
(* insertion order, which for every object built here is the order of      *)
(* KeyOrder; members whose value is undefined are left out and undefined    *)
(* array elements are written as null.  No string of the model needs        *)
(* escaping.                                                                *)

KeyOrder ==
    << "contents", "tools", "systemInstruction", "parts", "text", "google_search",
       "error", "candidates", "content", "groundingMetadata",
       "groundingAttributions", "web", "uri", "title" >>

RECURSIVE JSONstringify(_), JoinElements(_, _), JoinMembers(_, _, _)

JSONstringify(v) ==
    CASE v.t = "null" -> "null"
      [] v.t = "undefined" -> "null"
      [] v.t = "str" -> "\"" \o v.v \o "\""
      [] v.t = "bool" -> (IF v.b THEN "true" ELSE "false")
      [] v.t = "arr" -> "[" \o JoinElements(v.e, 1) \o "]"
      [] v.t = "obj" -> "{" \o JoinMembers(v.f, 1, TRUE) \o "}"

JoinElements(e, i) ==
    IF i > Len(e) THEN ""
    ELSE (IF i > 1 THEN "," ELSE "") \o JSONstringify(e[i]) \o JoinElements(e, i + 1)

JoinMembers(f, i, first) ==
    IF i > Len(KeyOrder) THEN ""
    ELSE LET k == KeyOrder[i] IN
         IF k \in DOMAIN f /\ f[k] # Undefined
         THEN (IF first THEN "" ELSE ",") \o "\"" \o k \o "\":"
              \o JSONstringify(f[k]) \o JoinMembers(f, i + 1, FALSE)
         ELSE JoinMembers(f, i + 1, first)

---------------------------------------------------------------------------
(* What an invocation is given *)

Methods == {"GET", "POST", "PUT"}

ApiKeys == {Undefined, Str(""), Str("k3y")}

UserQueries == {Absent, Str(""), Str("hello")}

SystemPrompts == {Absent, Str(""), Str("Be concise")}

GroundingFlags == {Absent, Bool(TRUE), Bool(FALSE), Str("yes")}

\* req.body: a parsed JSON object, or undefined / null when the request
\* carried no (JSON) body.
Bodies ==
    {Undefined, Null} \cup
    { ObjOf([userQuery |-> q, systemPrompt |-> p, useGrounding |-> g]) :
        q \in UserQueries, p \in SystemPrompts, g \in GroundingFlags }

Requests == [method : Methods, body : Bodies]

---------------------------------------------------------------------------
(* The handler up to its first await: lines 11-56 *)

GoogleApiUrlBase ==
    "https://generativelanguage.googleapis.com/v1beta/models/gemini-2.5-flash-preview-09-2025:generateContent?key="

TypeError(m) == [name |-> "TypeError", message |-> m]

SyntaxError(m) == [name |-> "SyntaxError", message |-> m]

\* res.status(status).json({ error: message })
ErrorReply(status, message) ==
    [status |-> status, body |-> Obj([error |-> Str(message)])]

\* res.status(200).json({ text, sources })
SuccessReply(text, sources) ==
    [status |-> 200, body |-> Obj([text |-> text, sources |-> sources])]

\* console.error(label, data)
LogEntry(label, data) == [label |-> label, data |-> data]

Send(reply) == [kind |-> "send", reply |-> reply, log |-> << >>]

SendLogged(reply, entry) == [kind |-> "send", reply |-> reply, log |-> << entry >>]

Throw(e) == [kind |-> "throw", error |-> e]

\* A variant of MethodAllowed that turns away GET alone.
MethodAllowed_OnlyGetRejected(method) == method # "GET"

\* if (req.method !== 'POST')
MethodAllowed(method) == method = "POST"

\* if (!apiKey)
KeyConfigured(apiKey) == Truthy(apiKey)

\* A variant of BuildPayload whose tools marker follows systemPrompt.
BuildPayload_ToolsFollowPrompt(userQuery, systemPrompt, useGrounding) ==
    ObjOf([ contents |-> Arr(<< Obj([parts |-> Arr(<< Obj([text |-> userQuery]) >>)]) >>),
            tools |-> IF Truthy(systemPrompt)
                      THEN Arr(<< Obj([google_search |-> EmptyObj]) >>)
                      ELSE Absent,
            systemInstruction |-> IF Truthy(systemPrompt)
                                  THEN Obj([parts |-> Arr(<< Obj([text |-> systemPrompt]) >>)])
                                  ELSE Absent ])

\* Lines 36-48.
BuildPayload(userQuery, systemPrompt, useGrounding) ==
    ObjOf([ contents |-> Arr(<< Obj([parts |-> Arr(<< Obj([text |-> userQuery]) >>)]) >>),
            tools |-> IF Truthy(useGrounding)
                      THEN Arr(<< Obj([google_search |-> EmptyObj]) >>)
                      ELSE Absent,
            systemInstruction |-> IF Truthy(systemPrompt)
                                  THEN Obj([parts |-> Arr(<< Obj([text |-> systemPrompt]) >>)])
                                  ELSE Absent ])

\* The argument list of the fetch call of lines 52-56.
FetchCall(apiKey, thePayload) ==
    [ url |-> GoogleApiUrlBase \o TemplateString(apiKey),
      method |-> "POST",
      headers |-> [ContentType |-> "application/json"],
      body |-> JSONstringify(thePayload) ]

\* A variant of ReadBodyAndCall that tests userQuery === undefined, so
\* that an empty userQuery goes through.
ReadBodyAndCall_UndefinedOnly(body) ==
    IF IsNullish(body)
    THEN Throw(TypeError("Cannot destructure property 'userQuery' of 'req.body' as it is "
                         \o TemplateString(body) \o "."))
    ELSE IF Get(body, "userQuery") = Undefined
    THEN Send(ErrorReply(400, "userQuery is required."))
    ELSE [ kind |-> "fetch",
           payload |-> BuildPayload(Get(body, "userQuery"), Get(body, "systemPrompt"),
                                    Get(body, "useGrounding")) ]

\* Lines 28-56, for a POST with the key configured.  Destructuring
\* undefined or null throws, and line 28 is outside the try block.
ReadBodyAndCall(body) ==
    IF IsNullish(body)
    THEN Throw(TypeError("Cannot destructure property 'userQuery' of 'req.body' as it is "
                         \o TemplateString(body) \o "."))
    ELSE LET userQuery == Get(body, "userQuery")
             systemPrompt == Get(body, "systemPrompt")
             useGrounding == Get(body, "useGrounding")
         IN  IF ~Truthy(userQuery)
             THEN Send(ErrorReply(400, "userQuery is required."))
             ELSE [ kind |-> "fetch",
                    payload |-> BuildPayload(userQuery, systemPrompt, useGrounding) ]

\* A variant of HandlerEntry that reads the body before it looks for the key.
HandlerEntry_FieldBeforeKey(r, apiKey) ==
    IF ~MethodAllowed(r.method)
    THEN Send(ErrorReply(405, "Method Not Allowed"))
    ELSE IF ReadBodyAndCall(r.body).kind # "fetch"
    THEN ReadBodyAndCall(r.body)
    ELSE IF ~KeyConfigured(apiKey)
    THEN Send(ErrorReply(500, "API key is not configured on the server."))
    ELSE ReadBodyAndCall(r.body)

\* Lines 11-56: the outcome of the synchronous start of the handler.
HandlerEntry(r, apiKey) ==
    IF ~MethodAllowed(r.method)
    THEN Send(ErrorReply(405, "Method Not Allowed"))
    ELSE IF ~KeyConfigured(apiKey)
    THEN Send(ErrorReply(500, "API key is not configured on the server."))
    ELSE ReadBodyAndCall(r.body)

---------------------------------------------------------------------------
(* What the provider may answer *)

MaxAttributions == 2

Uris == {Absent, Str(""), Str("http://x"), Str("http://y")}

Titles == {Absent, Str(""), Str("X")}

\* One element of groundingAttributions that is an object.
Attributions ==
    {EmptyObj} \cup
    { Obj([web |-> ObjOf([uri |-> u, title |-> t])]) : u \in Uris, t \in Titles }

AttributionLists == UNION { [1..n -> Attributions] : n \in 0..MaxAttributions }

GroundingMetadatas ==
    {Absent, EmptyObj, Obj([groundingAttributions |-> EmptyObj])} \cup
    { Obj([groundingAttributions |-> Arr(l)]) : l \in AttributionLists }

TextContent(s) == Obj([parts |-> Arr(<< Obj([text |-> Str(s)]) >>)])

\* candidate.content
Contents ==
    { Absent, EmptyObj,
      Obj([parts |-> Arr(<< >>)]),
      Obj([parts |-> Arr(<< EmptyObj >>)]),
      TextContent(""), TextContent("Paris") }

\* Every content is tried with a few groundings, and the content that
\* carries a text with every grounding.
BasicGroundings ==
    { Absent, EmptyObj, Obj([groundingAttributions |-> EmptyObj]),
      Obj([groundingAttributions |-> Arr(<< Null >>)]),
      Obj([groundingAttributions |->
             Arr(<< Obj([web |-> Obj([uri |-> Str("http://x"), title |-> Str("X")])]) >>)]) }

Candidates ==
    {Null} \cup
    { ObjOf([content |-> c, groundingMetadata |-> g]) : c \in Contents, g \in BasicGroundings } \cup
    { ObjOf([content |-> TextContent("Paris"), groundingMetadata |-> g]) : g \in GroundingMetadatas }

\* The documents a success body may parse to.
Results ==
    {Null, EmptyObj, Obj([candidates |-> Arr(<< >>)])} \cup
    { Obj([candidates |-> Arr(<< c >>)]) : c \in Candidates }

\* A response body is its raw text together with what JSON.parse makes of
\* that text: a document, or a SyntaxError.
Parsed(d) == [ok |-> TRUE, value |-> d]

Unparsable(e) == [ok |-> FALSE, error |-> e]

DocBody(d) == [text |-> JSONstringify(d), parsed |-> Parsed(d)]

PlainBodies ==
    { [ text |-> "rate limited",
        parsed |-> Unparsable(SyntaxError("Unexpected token r in JSON at position 0")) ],
      [ text |-> "",
        parsed |-> Unparsable(SyntaxError("Unexpected end of JSON input")) ] }

BasicDocs ==
    { DocBody(Obj([error |-> Str("quota")])),
      DocBody(Obj([candidates |-> Arr(<< Obj([content |-> TextContent("Paris")]) >>)])) }

Statuses == {200, 201, 429, 500}

ProviderResponses ==
    { [status |-> s, body |-> b] : s \in Statuses, b \in PlainBodies \cup BasicDocs } \cup
    { [status |-> 200, body |-> DocBody(d)] : d \in Results }

\* What fetch may reject with when the call fails.
FetchErrors == { TypeError("fetch failed"), TypeError("Failed to fetch") }

\* What text() and json() reject with when the connection breaks while the
\* body is read.
BodyErrors == { TypeError("terminated") }

TransportErrors == FetchErrors \cup BodyErrors

\* Response.ok
ResponseOk(resp) == resp.status >= 200 /\ resp.status <= 299

---------------------------------------------------------------------------
(* The handler after the provider's body was parsed: lines 69-90 *)

\* Lines 77-80: one attribution mapped to { uri, title }.
MapAttribution(attribution) ==
    Obj([ uri |-> OptGet(Get(attribution, "web"), "uri"),
          title |-> OptGet(Get(attribution, "web"), "title") ])

\* A variant of KeepSource that looks at the uri alone.
KeepSource_UriOnly(source) == Truthy(Get(source, "uri"))

\* Line 81: source.uri && source.title
KeepSource(source) == Truthy(Get(source, "uri")) /\ Truthy(Get(source, "title"))

\* Lines 76-81 for an array none of whose elements is null or undefined.
SourcesOf(attributions) ==
    SelectSeq([i \in 1..Len(attributions) |-> MapAttribution(attributions[i])], KeepSource)

\* Lines 73-85.
ExtractSources(text, candidate) ==
    LET groundingMetadata == Get(candidate, "groundingMetadata")
        groundingAttributions == Get(groundingMetadata, "groundingAttributions")
    IN  IF Truthy(groundingMetadata) /\ Truthy(groundingAttributions)
        THEN IF groundingAttributions.t # "arr"
             THEN Throw(TypeError("groundingMetadata.groundingAttributions.map is not a function"))
             ELSE IF \E i \in 1..Len(groundingAttributions.e) :
                        IsNullish(groundingAttributions.e[i])
             THEN Throw(TypeError("Cannot read properties of null (reading 'web')"))
             ELSE Send(SuccessReply(text, Arr(SourcesOf(groundingAttributions.e))))
        ELSE Send(SuccessReply(text, Arr(<< >>)))

\* candidate.content?.parts?.[0]?.text
CandidateText(candidate) ==
    OptGet(OptFirst(OptGet(Get(candidate, "content"), "parts")), "text")

\* Lines 69-90.
Extract(result) ==
    IF IsNullish(result)
    THEN Throw(TypeError("Cannot read properties of null (reading 'candidates')"))
    ELSE LET candidate == OptFirst(Get(result, "candidates")) IN
         IF Truthy(candidate) /\ Truthy(CandidateText(candidate))
         THEN ExtractSources(CandidateText(candidate), candidate)
         ELSE SendLogged(ErrorReply(500, "The API returned an unexpected response."),
                         LogEntry("Invalid Google API response structure:", result))

\* A variant of Caught that answers with the fixed message.
Caught_FixedMessage(e) ==
    SendLogged(ErrorReply(500, "The API returned an unexpected response."),
               LogEntry("Server-side fetch error:", e))

\* Lines 92-95: the catch block.
Caught(e) ==
    SendLogged(ErrorReply(500, "Server error: " \o e.message),
               LogEntry("Server-side fetch error:", e))

\* A variant of RelayError that answers 500 whatever the provider's status.
RelayError_Fixed500(resp) ==
    SendLogged(ErrorReply(500, "Google API Error: " \o TemplateString(Str(resp.body.text))),
               LogEntry("Google API Error:", Str(resp.body.text)))

\* Lines 59-63.
RelayError(resp) ==
    SendLogged(ErrorReply(resp.status, "Google API Error: " \o TemplateString(Str(resp.body.text))),
               LogEntry("Google API Error:", Str(resp.body.text)))

\* Lines 66-90: json() throws what JSON.parse throws, or the document is
\* taken apart.
OnJson(resp) ==
    IF ~resp.body.parsed.ok
    THEN Throw(resp.body.parsed.error)
    ELSE Extract(resp.body.parsed.value)

---------------------------------------------------------------------------
(* The invocation as a state machine *)

Init ==
    /\ pc = "idle"
    /\ env \in ApiKeys
    /\ req = Undefined
    /\ payload = Undefined
    /\ fetchCalls = << >>
    /\ googleResponse = Undefined
    /\ sent = << >>
    /\ console = << >>
    /\ error = Undefined
    /\ unhandled = Undefined

\* An outcome of kind "send" takes effect and the handler returns.
Emit(out) ==
    /\ sent' = Append(sent, out.reply)
    /\ console' = console \o out.log
    /\ pc' = "done"

\* An outcome reached inside the try block of lines 51-95: what is thrown
\* there enters the catch block.
InTry(out) ==
    IF out.kind = "throw"
    THEN /\ error' = out.error
         /\ Emit(Caught(out.error))
    ELSE /\ Emit(out)
         /\ UNCHANGED error

\* handler(req, res) is called and runs to its first await or its return.
Handler(r) ==
    /\ pc = "idle"
    /\ req' = r
    /\ LET out == HandlerEntry(r, env) IN
       CASE out.kind = "send" ->
                /\ Emit(out)
                /\ UNCHANGED <<payload, fetchCalls, unhandled>>
         [] out.kind = "throw" ->
                /\ unhandled' = out.error
                /\ pc' = "rejected"
                /\ UNCHANGED <<payload, fetchCalls, sent, console>>
         [] out.kind = "fetch" ->
                /\ payload' = out.payload
                /\ fetchCalls' = Append(fetchCalls, FetchCall(env, out.payload))
                /\ pc' = "awaitFetch"
                /\ UNCHANGED <<sent, console, unhandled>>
    /\ UNCHANGED <<env, googleResponse, error>>

\* fetch resolves with the provider's response: lines 52-58 and 66.
FetchResolves(resp) ==
    /\ pc = "awaitFetch"
    /\ googleResponse' = resp
    /\ pc' = IF ~ResponseOk(resp) THEN "awaitText" ELSE "awaitJson"
    /\ UNCHANGED <<env, req, payload, fetchCalls, sent, console, error, unhandled>>

\* fetch rejects: the catch block runs.
FetchRejects(e) ==
    /\ pc = "awaitFetch"
    /\ InTry(Throw(e))
    /\ UNCHANGED <<env, req, payload, fetchCalls, googleResponse, unhandled>>

\* googleResponse.text() resolves: lines 59-63.
TextResolves ==
    /\ pc = "awaitText"
    /\ InTry(RelayError(googleResponse))
    /\ UNCHANGED <<env, req, payload, fetchCalls, googleResponse, unhandled>>

\* googleResponse.json() settles on the body received: lines 66-95.
JsonSettles ==
    /\ pc = "awaitJson"
    /\ InTry(OnJson(googleResponse))
    /\ UNCHANGED <<env, req, payload, fetchCalls, googleResponse, unhandled>>

\* Reading the body fails on the wire: text() or json() rejects.
BodyReadFails(e) ==
    /\ pc \in {"awaitText", "awaitJson"}
    /\ InTry(Throw(e))
    /\ UNCHANGED <<env, req, payload, fetchCalls, googleResponse, unhandled>>

Next ==
    \/ \E r \in Requests : Handler(r)
    \/ \E resp \in ProviderResponses : FetchResolves(resp)
    \/ \E e \in FetchErrors : FetchRejects(e)
    \/ TextResolves
    \/ JsonSettles
    \/ \E e \in BodyErrors : BodyReadFails(e)

Spec == Init /\ [][Next]_vars

---------------------------------------------------------------------------
(* Properties.  The expected responses are written out value by value, not *)
(* through the operators that model the handler.                           *)

ErrorResponse(status, message) ==
    [ status |-> status,
      body |-> [t |-> "obj", f |-> [error |-> [t |-> "str", v |-> message]]] ]

KeyPresent == env.t = "str" /\ env.v # ""

HasKey(o, k) == o.t = "obj" /\ k \in DOMAIN o.f

HasFirst(a) == a.t = "arr" /\ Len(a.e) >= 1

\* userQuery is empty, or absent from the body object.
UserQueryMissing ==
    /\ req.body.t = "obj"
    /\ ("userQuery" \notin DOMAIN req.body.f \/ req.body.f.userQuery = Str(""))

ProviderAnswered == googleResponse # Undefined

ProviderStatusOk == googleResponse.status \in 200..299

\* C1: a request whose method is not POST gets 405 {error: "Method Not
\* Allowed"}, whatever the key and the body, and fetch is never called.
C1_NonPostIs405 ==
    (pc # "idle" /\ req.method # "POST") =>
        /\ pc = "done"
        /\ sent = << ErrorResponse(405, "Method Not Allowed") >>
        /\ fetchCalls = << >>

C1_Witness ==
    /\ pc = "done"
    /\ req.method = "PUT"
    /\ req.body = Undefined
    /\ env = Undefined
    /\ sent = << ErrorResponse(405, "Method Not Allowed") >>

\* C2: a POST while GEMINI_API_KEY is unset or empty gets 500 {error: "API
\* key is not configured on the server."} for any body, a missing userQuery
\* and an absent body included, and fetch is never called.
C2_MissingKeyIs500 ==
    (pc # "idle" /\ req.method = "POST" /\ ~KeyPresent) =>
        /\ pc = "done"
        /\ sent = << ErrorResponse(500, "API key is not configured on the server.") >>
        /\ fetchCalls = << >>

C2_Witness ==
    /\ pc = "done"
    /\ req.method = "POST"
    /\ env = Str("")
    /\ req.body.t = "obj"
    /\ "userQuery" \notin DOMAIN req.body.f
    /\ sent = << ErrorResponse(500, "API key is not configured on the server.") >>

\* C3: a POST with the key configured whose body has an empty or no
\* userQuery gets 400 {error: "userQuery is required."} and fetch is not
\* called; fetch is called only for a POST with the key present and a
\* non-empty userQuery.
C3_MissingQueryIs400 ==
    /\ (pc # "idle" /\ req.method = "POST" /\ KeyPresent /\ UserQueryMissing) =>
           /\ pc = "done"
           /\ sent = << ErrorResponse(400, "userQuery is required.") >>
           /\ fetchCalls = << >>
    /\ fetchCalls # << >> =>
           /\ req.method = "POST"
           /\ KeyPresent
           /\ HasKey(req.body, "userQuery")
           /\ req.body.f.userQuery.t = "str"
           /\ req.body.f.userQuery.v # ""

C3_Witness ==
    /\ pc = "done"
    /\ req.method = "POST"
    /\ KeyPresent
    /\ HasKey(req.body, "userQuery")
    /\ req.body.f.userQuery = Str("")
    /\ HasKey(req.body, "systemPrompt")
    /\ sent = << ErrorResponse(400, "userQuery is required.") >>

IsFullSuccess(reply) == reply.status = 200 /\ DOMAIN reply.body.f = {"text", "sources"}

IsErrorOnly(reply) == DOMAIN reply.body.f = {"error"}

\* C4: no invocation ends in an unhandled fault; whatever the request and
\* the provider do, the handler completes with exactly one response, the
\* full {text, sources} with status 200 or an {error} object.
C4_AlwaysOneResponse ==
    /\ pc # "rejected"
    /\ unhandled = Undefined
    /\ Len(sent) <= 1
    /\ pc = "done" =>
           /\ Len(sent) = 1
           /\ (IsFullSuccess(sent[1]) \/ IsErrorOnly(sent[1]))

\* C5: when the provider answers with a non-success status S and body text
\* B, the response is S {error: "Google API Error: " + B}, the text passed on
\* as it came, and fetch was called once.
C5_ProviderErrorRelayed ==
    (pc = "done" /\ ProviderAnswered /\ ~ProviderStatusOk /\ error = Undefined) =>
        /\ sent = << ErrorResponse(googleResponse.status,
                                   "Google API Error: " \o googleResponse.body.text) >>
        /\ Len(fetchCalls) = 1

C5_Witness ==
    /\ pc = "done"
    /\ ProviderAnswered
    /\ googleResponse.status = 429
    /\ googleResponse.body.text = "rate limited"
    /\ sent = << ErrorResponse(429, "Google API Error: rate limited") >>
    /\ Len(fetchCalls) = 1

\* candidates[0].content.parts[0].text is there.
PathPresent(d) ==
    /\ HasKey(d, "candidates")
    /\ HasFirst(d.f.candidates)
    /\ HasKey(d.f.candidates.e[1], "content")
    /\ HasKey(d.f.candidates.e[1].f.content, "parts")
    /\ HasFirst(d.f.candidates.e[1].f.content.f.parts)
    /\ HasKey(d.f.candidates.e[1].f.content.f.parts.e[1], "text")

PathText(d) == d.f.candidates.e[1].f.content.f.parts.e[1].f.text

\* The provider answered with a success status and its body arrived.
SuccessBodyArrived ==
    /\ pc = "done"
    /\ ProviderAnswered
    /\ ProviderStatusOk
    /\ error \notin TransportErrors

\* C6: for a success status and a parsed body, the response is 500 {error:
\* "The API returned an unexpected response."} exactly when
\* candidates[0].content.parts[0].text is absent; when it is present, for any
\* string there, the response is 200 with that text and a sources array,
\* which is empty when groundingMetadata is absent.
C6_ShapeDecidesResponse ==
    (SuccessBodyArrived /\ googleResponse.body.parsed.ok) =>
        LET d == googleResponse.body.parsed.value IN
        /\ (~PathPresent(d)) <=>
               (sent = << ErrorResponse(500, "The API returned an unexpected response.") >>)
        /\ PathPresent(d) =>
               /\ Len(sent) = 1
               /\ IsFullSuccess(sent[1])
               /\ sent[1].body.f.text = PathText(d)
               /\ sent[1].body.f.sources.t = "arr"
               /\ ~HasKey(d.f.candidates.e[1], "groundingMetadata") =>
                      sent[1].body.f.sources = Arr(<< >>)

\* C7: a success status with a body that is not JSON gets 500 with the
\* generic message {error: "The API returned an unexpected response."}, and
\* so nothing of the body or of the parse failure.
C7_UnparsableIsGeneric ==
    (SuccessBodyArrived /\ ~googleResponse.body.parsed.ok) =>
        sent = << ErrorResponse(500, "The API returned an unexpected response.") >>

\* The response is a 200 built from a candidate that carries an array of
\* grounding attributions.
GroundedSuccess ==
    /\ pc = "done"
    /\ Len(sent) = 1
    /\ sent[1].status = 200
    /\ HasKey(googleResponse.body.parsed.value.f.candidates.e[1], "groundingMetadata")
    /\ HasKey(googleResponse.body.parsed.value.f.candidates.e[1].f.groundingMetadata,
              "groundingAttributions")
    /\ googleResponse.body.parsed.value.f.candidates.e[1].f.groundingMetadata
           .f.groundingAttributions.t = "arr"

GroundingAttributions ==
    googleResponse.body.parsed.value.f.candidates.e[1].f.groundingMetadata
        .f.groundingAttributions.e

\* The {uri, title} of the attributions of `kept`, in their order.
CitationsOf(kept) ==
    [ i \in 1..Len(kept) |->
        [t |-> "obj", f |-> [uri |-> kept[i].f.web.f.uri, title |-> kept[i].f.web.f.title]] ]

HasBothFields(a) ==
    /\ HasKey(a, "web")
    /\ HasKey(a.f.web, "uri")
    /\ HasKey(a.f.web, "title")

HasBothNonEmpty(a) ==
    /\ HasBothFields(a)
    /\ a.f.web.f.uri # Str("")
    /\ a.f.web.f.title # Str("")

\* C8 as stated: sources is the attributions that have a web citation with
\* both a uri and a title, as {uri, title}, in order, none of them dropped.
C8_SourcesAreCitationsWithBothFields ==
    GroundedSuccess =>
        sent[1].body.f.sources = Arr(CitationsOf(SelectSeq(GroundingAttributions, HasBothFields)))

\* C8 as amended: sources is the attributions that have a web citation with
\* a non-empty uri and a non-empty title, as {uri, title}, in order; every
\* other attribution is dropped, none of these is.
C8_SourcesAreCitationsWithBothNonEmpty ==
    GroundedSuccess =>
        sent[1].body.f.sources = Arr(CitationsOf(SelectSeq(GroundingAttributions, HasBothNonEmpty)))

C8_Witness ==
    /\ GroundedSuccess
    /\ GroundingAttributions =
           << Obj([web |-> Obj([uri |-> Str("http://x"), title |-> Str("X")])]),
              Obj([web |-> Obj([uri |-> Str("http://y")])]) >>
    /\ sent[1].body.f.sources = Arr(<< Obj([uri |-> Str("http://x"), title |-> Str("X")]) >>)

\* C9: the payload of a validated request has contents with userQuery as
\* its only part; a tools key, holding one google_search marker, exactly when
\* useGrounding is truthy; a systemInstruction key, whose parts[0].text is
\* systemPrompt, exactly when systemPrompt is present and non-empty; no other
\* key and no null; and it is what the one fetch call carries.
C9_PayloadShape ==
    fetchCalls # << >> =>
        LET body == req.body.f
            grounded == "useGrounding" \in DOMAIN body
                            /\ body.useGrounding \in {Bool(TRUE), Str("yes")}
            prompted == "systemPrompt" \in DOMAIN body /\ body.systemPrompt # Str("")
        IN  /\ payload.t = "obj"
            /\ DOMAIN payload.f \subseteq {"contents", "tools", "systemInstruction"}
            /\ \A k \in DOMAIN payload.f : payload.f[k] \notin {Null, Undefined}
            /\ payload.f.contents =
                   Arr(<< Obj([parts |-> Arr(<< Obj([text |-> body.userQuery]) >>)]) >>)
            /\ ("tools" \in DOMAIN payload.f) <=> grounded
            /\ grounded => payload.f.tools = Arr(<< Obj([google_search |-> EmptyObj]) >>)
            /\ ("systemInstruction" \in DOMAIN payload.f) <=> prompted
            /\ prompted =>
                   payload.f.systemInstruction =
                       Obj([parts |-> Arr(<< Obj([text |-> body.systemPrompt]) >>)])
            /\ Len(fetchCalls) = 1
            /\ fetchCalls[1].body = JSONstringify(payload)

C9_Witness ==
    /\ fetchCalls # << >>
    /\ req.body.f.userQuery = Str("hello")
    /\ HasKey(req.body, "useGrounding")
    /\ req.body.f.useGrounding = Bool(TRUE)
    /\ ~HasKey(req.body, "systemPrompt")
    /\ DOMAIN payload.f = {"contents", "tools"}
    /\ fetchCalls[1].body =
           "{\"contents\":[{\"parts\":[{\"text\":\"hello\"}]}],\"tools\":[{\"google_search\":{}}]}"

\* C10: when fetch itself throws, the response is 500 {error: "Server
\* error: " + the exception's message}, the only response, and fetch was
\* called once.
C10_TransportFailureIs500 ==
    (pc = "done" /\ fetchCalls # << >> /\ ~ProviderAnswered) =>
        /\ error \in FetchErrors
        /\ sent = << ErrorResponse(500, "Server error: " \o error.message) >>
        /\ Len(fetchCalls) = 1

C10_Witness ==
    /\ pc = "done"
    /\ fetchCalls # << >>
    /\ ~ProviderAnswered
    /\ error = TypeError("fetch failed")
    /\ sent = << ErrorResponse(500, "Server error: fetch failed") >>
    /\ Len(fetchCalls) = 1

=============================================================================
